---------------------------- MODULE Spec2Model ----------------------------
(***************************************************************************)
(* Model of the admission-control counter of do-kb-mcp (src/src/server.ts):*)
(* the RateLimiter Durable Object (RateLimiter.fetch) and the Worker-side  *)
(* checkRateLimit that calls it.                                           *)
(*                                                                         *)
(* Strings are modelled as sequences of one-character strings, so that the *)
(* storage keys `${clientIP}:${windowStart}`, key.startsWith(...),         *)
(* key.split(':')[1] and parseInt(...) are computed as the code computes   *)
(* them.  Time is in milliseconds, as returned by Date.now().              *)
(***************************************************************************)
EXTENDS Integers, Sequences, FiniteSets, Bags, TLC

(***************************************************************************)
(* Bounds of the model.                                                    *)
(***************************************************************************)
\* the clock runs up to MaxPeriods periods of the shorter of the two windows
MaxPeriods == 3
\* requests that may be on their way to the Durable Object at the same time
MaxInFlight == 1
\* storage calls that may throw in one behaviour
MaxFaults == 1

(***************************************************************************)
(* JavaScript numbers: integers plus NaN.                                  *)
(***************************************************************************)
NaN == -2147483647

IsNaN(x) == x = NaN

JsSub(a, b) == IF IsNaN(a) \/ IsNaN(b) THEN NaN ELSE a - b

JsAdd(a, b) == IF IsNaN(a) \/ IsNaN(b) THEN NaN ELSE a + b

JsMul(a, b) == IF IsNaN(a) \/ IsNaN(b) THEN NaN ELSE a * b

\* a % b of JavaScript for a >= 0: NaN for b = 0, the sign of b is ignored
JsMod(a, b) ==
    IF IsNaN(a) \/ IsNaN(b) \/ b = 0 THEN NaN
    ELSE IF b > 0 THEN a % b ELSE a % (0 - b)

\* a < b and a >= b of JavaScript: every comparison with NaN is false
JsLt(a, b) == ~IsNaN(a) /\ ~IsNaN(b) /\ a < b

JsGe(a, b) == ~IsNaN(a) /\ ~IsNaN(b) /\ a >= b

(***************************************************************************)
(* Strings as sequences of characters.                                     *)
(***************************************************************************)
Digits == <<"0", "1", "2", "3", "4", "5", "6", "7", "8", "9">>

IsDigit(c) == \E i \in 1..10 : Digits[i] = c

DigitVal(c) == (CHOOSE i \in 1..10 : Digits[i] = c) - 1

\* Number.prototype.toString / template-literal conversion of a number
RECURSIVE NatToString(_)
NatToString(n) ==
    IF n < 10 THEN <<Digits[n + 1]>>
    ELSE NatToString(n \div 10) \o <<Digits[(n % 10) + 1]>>

NumToString(n) ==
    IF IsNaN(n) THEN <<"N", "a", "N">>
    ELSE IF n < 0 THEN <<"-">> \o NatToString(0 - n)
    ELSE NatToString(n)

\* String.prototype.startsWith
StartsWith(s, p) == Len(p) <= Len(s) /\ SubSeq(s, 1, Len(p)) = p

\* positions of the ':' characters of s
ColonsOf(s) == {i \in 1..Len(s) : s[i] = ":"}

Min(S) == CHOOSE x \in S : \A y \in S : x <= y

\* key.split(':')[1]: the text between the first ':' and the next one (or the
\* end); undefined, written <<"undefined">> as parseInt sees it, without a ':'
SplitField1(s) ==
    IF ColonsOf(s) = {} THEN <<"u", "n", "d", "e", "f", "i", "n", "e", "d">>
    ELSE LET c1 == Min(ColonsOf(s))
             rest == {i \in ColonsOf(s) : i > c1}
             stop == IF rest = {} THEN Len(s) + 1 ELSE Min(rest)
         IN  SubSeq(s, c1 + 1, stop - 1)

\* the value of the longest prefix of decimal digits of s, given as acc so far
RECURSIVE DigitsValue(_, _)
DigitsValue(s, acc) ==
    IF s = <<>> \/ ~IsDigit(Head(s)) THEN acc
    ELSE DigitsValue(Tail(s), acc * 10 + DigitVal(Head(s)))

\* parseInt(s): an optional sign, then the longest run of digits; NaN when
\* there is no digit
ParseInt(s) ==
    LET neg   == s # <<>> /\ Head(s) = "-"
        body  == IF s # <<>> /\ Head(s) \in {"-", "+"} THEN Tail(s) ELSE s
    IN  IF body = <<>> \/ ~IsDigit(Head(body)) THEN NaN
        ELSE IF neg THEN 0 - DigitsValue(body, 0) ELSE DigitsValue(body, 0)

(***************************************************************************)
(* Client identifiers that reach the limiter (the value of the             *)
(* CF-Connecting-IP / X-Forwarded-For / X-Real-IP header).                 *)
(***************************************************************************)
IpA == <<"a">>

IpAB == <<"a", "b">>

\* an identifier with ':' whose second field is a number (an IPv6 address
\* such as 2001:4860::1 has this shape)
IpColonNum == <<"1", ":", "2">>

\* an identifier with ':' whose second field is not a number (2001:db8::1)
IpColonTxt == <<"a", ":", "b">>

IpGlobal == <<"g", "l", "o", "b", "a", "l">>

\* 'fallback-ip', the identifier of a request without any of the headers
FallbackIp == <<"f", "a", "l", "l", "b", "a", "c", "k", "-", "i", "p">>

ClientIPs == {IpA, IpAB, IpColonNum, IpColonTxt, IpGlobal, FallbackIp}

\* the clients of one behaviour: an ordinary one and one of the others that
\* send their address in a header
Populations == { {IpA, other} : other \in ClientIPs \ {IpA, FallbackIp} }

GlobalPrefix == <<"g", "l", "o", "b", "a", "l", ":">>

\* request.method: the one the server serves, the preflight, another one
Methods == {"POST", "OPTIONS", "GET"}

(***************************************************************************)
(* State.                                                                  *)
(***************************************************************************)
VARIABLES
    now,        \* Date.now(), milliseconds
    cfg,        \* env: the four rate-limit settings, as text
    population, \* the client identifiers that send requests in this behaviour
    methods,    \* the HTTP methods of the requests sent in this behaviour
    storage,    \* this.state.storage of the one RateLimiter object: key -> count
    inflight,   \* bag of requests whose check is on its way to the object
    faults,     \* storage calls that have thrown so far
    agents,     \* what the latest getDOAgentInstances() gave (or threw)
    last,       \* the most recent check handled by the object (observation)
    carried,    \* the headers the requests of this behaviour carry
    issued      \* Allowed verdicts issued per scope in its current window, the
                \* highest count each key has been stored with and, for the
                \* clients whose denials are followed, the reset time of the
                \* pending denial (observation)

vars == <<now, cfg, population, carried, methods, storage, inflight, faults, agents, last, issued>>

(***************************************************************************)
(* checkRateLimit, before the call: the parameters it sends.               *)
(***************************************************************************)
\* env.X || 'default': an unset variable (and the empty string) is falsy
OrDefault(text, default) == IF text = <<>> THEN default ELSE text

\* request.headers of a request that came through Cloudflare, which sets
\* CF-Connecting-IP; a header that is absent or empty is <<>>
FromCloudflare(ip) == [ cf |-> ip, xff |-> <<>>, xri |-> <<>> ]

\* a || b: null and the empty string are falsy
JsOr(a, b) == IF a = <<>> THEN b ELSE a

\* a clientIP that looks at X-Forwarded-For before CF-Connecting-IP
ClientIPForwardedFirst(headers) ==
    JsOr(JsOr(JsOr(headers.xff, headers.cf), headers.xri), FallbackIp)

\* const clientIP = headers.get('CF-Connecting-IP') ||
\*     headers.get('X-Forwarded-For') || headers.get('X-Real-IP') || 'fallback-ip'
ClientIP(headers) ==
    JsOr(JsOr(JsOr(headers.cf, headers.xff), headers.xri), FallbackIp)

\* the four parseInt(env.X || default) of checkRateLimit
RateLimitParams(env) ==
    [ rateLimit           |-> ParseInt(OrDefault(env.RATE_LIMIT_PER_WINDOW, <<"3", "0">>)),
      windowSeconds       |-> ParseInt(OrDefault(env.RATE_LIMIT_WINDOW_SECONDS, <<"6", "0">>)),
      globalRateLimit     |-> ParseInt(OrDefault(env.GLOBAL_RATE_LIMIT_PER_WINDOW, <<"1", "0", "0">>)),
      globalWindowSeconds |-> ParseInt(OrDefault(env.GLOBAL_RATE_LIMIT_WINDOW_SECONDS, <<"1", "2", "0">>)) ]

\* the query string of the call: each number goes through toString()
RateLimitUrl(clientIP, p) ==
    [ clientIP            |-> clientIP,
      limit               |-> NumToString(p.rateLimit),
      windowSeconds       |-> NumToString(p.windowSeconds),
      globalLimit         |-> NumToString(p.globalRateLimit),
      globalWindowSeconds |-> NumToString(p.globalWindowSeconds) ]

(***************************************************************************)
(* RateLimiter.fetch.                                                      *)
(***************************************************************************)
\* a window computed in seconds from a clock in milliseconds
WindowStartInSeconds(t, windowSeconds) == JsSub(t, JsMod(t, windowSeconds))

\* now - (now % (windowSeconds * 1000))
WindowStart(t, windowSeconds) == JsSub(t, JsMod(t, JsMul(windowSeconds, 1000)))

\* `${clientIP}:${windowStart}`
WindowKey(clientIP, windowStart) == clientIP \o <<":">> \o NumToString(windowStart)

\* `global:${globalWindowStart}`
GlobalWindowKey(globalWindowStart) == GlobalPrefix \o NumToString(globalWindowStart)

\* (await this.state.storage.get(key)) || 0
StorageGet(s, key) == IF key \in DOMAIN s THEN s[key] ELSE 0

\* await this.state.storage.put(key, value)
StoragePut(s, key, value) ==
    [k \in DOMAIN s \cup {key} |-> IF k = key THEN value ELSE s[k]]

\* await this.state.storage.delete(key), for a set of keys
StorageDelete(s, keys) == [k \in DOMAIN s \ keys |-> s[k]]

\* the test of the clean-up loop: is this key deleted?
KeyIsOld(key, clientIP, windowStart, windowSeconds, globalWindowStart, globalWindowSeconds) ==
    IF StartsWith(key, clientIP)
    THEN JsLt(ParseInt(SplitField1(key)), JsSub(windowStart, JsMul(windowSeconds, 1000)))
    ELSE IF StartsWith(key, GlobalPrefix)
    THEN JsLt(ParseInt(SplitField1(key)),
              JsSub(globalWindowStart, JsMul(globalWindowSeconds, 1000)))
    ELSE FALSE

\* storage.list() returns the keys in increasing order of their bytes
CharOrder == <<"+", "-", "0", "1", "2", "3", "4", "5", "6", "7", "8", "9", ":",
               "N", "a", "b", "c", "d", "e", "f", "g", "i", "k", "l", "n", "o", "p",
               "u">>

CharRank(c) == CHOOSE i \in 1..Len(CharOrder) : CharOrder[i] = c

RECURSIVE KeyLess(_, _)
KeyLess(a, b) ==
    IF b = <<>> THEN FALSE
    ELSE IF a = <<>> THEN TRUE
    ELSE IF Head(a) = Head(b) THEN KeyLess(Tail(a), Tail(b))
    ELSE CharRank(Head(a)) < CharRank(Head(b))

RECURSIVE ListOrder(_)
ListOrder(keys) ==
    IF keys = {} THEN <<>>
    ELSE LET first == CHOOSE k \in keys : \A o \in keys \ {k} : KeyLess(k, o)
         IN  <<first>> \o ListOrder(keys \ {first})

SeqRange(q) == {q[i] : i \in 1..Len(q)}

\* a limiter that lets one request too many through: > for >=
AtLimitStrict(count, limit) == ~IsNaN(count) /\ ~IsNaN(limit) /\ count > limit

\* currentCount >= limit, globalCount >= globalLimit
AtLimit(count, limit) == JsGe(count, limit)

\* the responses of RateLimiter.fetch; kind tells the three outcomes apart
\* (a 429 body, a 200 body, an exception out of a storage call)
DeniedResponse(count, limit, resetTime, reason) ==
    [ kind |-> "denied", allowed |-> FALSE, count |-> count, limit |-> limit,
      resetTime |-> resetTime, reason |-> reason ]

\* a response that reports the counts read, not the counts written
AllowedResponseAsRead(count, limit, globalCount, globalLimit, resetTime) ==
    [ kind |-> "allowed", allowed |-> TRUE, count |-> count - 1, limit |-> limit,
      globalCount |-> globalCount - 1, globalLimit |-> globalLimit,
      resetTime |-> resetTime ]

AllowedResponse(count, limit, globalCount, globalLimit, resetTime) ==
    [ kind |-> "allowed", allowed |-> TRUE, count |-> count, limit |-> limit,
      globalCount |-> globalCount, globalLimit |-> globalLimit,
      resetTime |-> resetTime ]

Threw == [ kind |-> "exception" ]

\* The statements of RateLimiter.fetch(url) at time t on storage s.  failAt =
\* k > 0 makes the k-th storage call of this execution throw; failAt = 0 is a
\* run without a storage error.  Yields the storage left behind, the
\* response, the number of storage calls made, the keys read with get and
\* the puts made, in their order.
FetchSteps(s, url, t, failAt) ==
    LET clientIP            == url.clientIP
        limit               == ParseInt(OrDefault(url.limit, <<"3", "0">>))
        windowSeconds       == ParseInt(OrDefault(url.windowSeconds, <<"6", "0">>))
        globalLimit         == ParseInt(OrDefault(url.globalLimit, <<"1", "0", "0">>))
        globalWindowSeconds == ParseInt(OrDefault(url.globalWindowSeconds, <<"1", "2", "0">>))
        windowStart         == WindowStart(t, windowSeconds)
        globalWindowStart   == WindowStart(t, globalWindowSeconds)
        windowKey           == WindowKey(clientIP, windowStart)
        globalWindowKey     == GlobalWindowKey(globalWindowStart)
        currentCount        == StorageGet(s, windowKey)
        globalCount         == StorageGet(s, globalWindowKey)
        newCount            == currentCount + 1
        newGlobalCount      == globalCount + 1
        s1                  == StoragePut(s, windowKey, newCount)
        s2                  == StoragePut(s1, globalWindowKey, newGlobalCount)
        \* the keys the clean-up loop deletes, and the order it meets them in
        old                 == {key \in DOMAIN s2 :
                                   KeyIsOld(key, clientIP, windowStart, windowSeconds,
                                            globalWindowStart, globalWindowSeconds)}
        oldInOrder          == ListOrder(old)
        \* the puts made: the first alone, then both
        put1                == << <<windowKey, newCount>> >>
        put2                == << <<windowKey, newCount>>, <<globalWindowKey, newGlobalCount>> >>
    IN  IF failAt = 1
        THEN [storage |-> s, response |-> Threw, calls |-> 1, reads |-> {}, writes |-> <<>>]
        ELSE IF AtLimit(currentCount, limit)
        THEN [ storage  |-> s, calls |-> 1, reads |-> {windowKey}, writes |-> <<>>,
               response |-> DeniedResponse(currentCount, limit,
                                JsAdd(windowStart, JsMul(windowSeconds, 1000)),
                                "per_ip_limit") ]
        ELSE IF failAt = 2
        THEN [ storage |-> s, response |-> Threw, calls |-> 2, reads |-> {windowKey},
               writes |-> <<>> ]
        ELSE IF AtLimit(globalCount, globalLimit)
        THEN [ storage  |-> s, calls |-> 2, reads |-> {windowKey, globalWindowKey},
               writes   |-> <<>>,
               response |-> DeniedResponse(globalCount, globalLimit,
                                JsAdd(globalWindowStart, JsMul(globalWindowSeconds, 1000)),
                                "global_limit") ]
        ELSE IF failAt = 3 THEN [ storage |-> s, response |-> Threw, calls |-> 3,
               reads |-> {windowKey, globalWindowKey}, writes |-> <<>> ]
        ELSE IF failAt = 4 THEN [ storage |-> s1, response |-> Threw, calls |-> 4,
               reads |-> {windowKey, globalWindowKey}, writes |-> put1 ]
        ELSE IF failAt = 5 THEN [ storage |-> s2, response |-> Threw, calls |-> 5,
               reads |-> {windowKey, globalWindowKey}, writes |-> put2 ]
        ELSE IF failAt >= 6 /\ failAt - 5 <= Cardinality(old)
        THEN [ storage  |-> StorageDelete(s2, SeqRange(SubSeq(oldInOrder, 1, failAt - 6))),
               response |-> Threw, calls |-> failAt,
               reads |-> {windowKey, globalWindowKey}, writes |-> put2 ]
        ELSE [ storage  |-> StorageDelete(s2, old), calls |-> 5 + Cardinality(old),
               reads |-> {windowKey, globalWindowKey}, writes |-> put2,
               response |-> AllowedResponse(newCount, limit, newGlobalCount, globalLimit,
                                JsAdd(windowStart, JsMul(windowSeconds, 1000))) ]

\* a limiter that counts the request before it tests the per-client limit,
\* so that a denied request is counted too
FetchCountsDenied(s, url, t, failAt) ==
    LET r   == FetchSteps(s, url, t, failAt)
        key == WindowKey(url.clientIP, WindowStart(t, ParseInt(url.windowSeconds)))
    IN  IF r.response.kind = "denied"
        THEN [r EXCEPT !.storage = StoragePut(s, key, StorageGet(s, key) + 1)]
        ELSE r

\* a limiter whose global denial carries the end of the client window
FetchGlobalDenialClientReset(s, url, t, failAt) ==
    LET r       == FetchSteps(s, url, t, failAt)
        seconds == ParseInt(url.windowSeconds)
    IN  IF r.response.kind = "denied" /\ r.response.reason = "global_limit"
        THEN [r EXCEPT !.response.resetTime =
                           JsAdd(WindowStart(t, seconds), JsMul(seconds, 1000))]
        ELSE r

\* a limiter that runs its clean-up loop before it returns a denial, too
FetchSweepsWhenDenied(s, url, t, failAt) ==
    LET r       == FetchSteps(s, url, t, failAt)
        seconds == ParseInt(url.windowSeconds)
        global  == ParseInt(url.globalWindowSeconds)
        old     == {key \in DOMAIN s :
                       KeyIsOld(key, url.clientIP, WindowStart(t, seconds), seconds,
                                WindowStart(t, global), global)}
    IN  IF r.response.kind = "denied"
        THEN [r EXCEPT !.storage = StorageDelete(s, old)]
        ELSE r

\* rateLimiterObject.fetch(rateLimitUrl): the call of RateLimiter.fetch
Fetch(s, url, t, failAt) == FetchSteps(s, url, t, failAt)

(***************************************************************************)
(* checkRateLimit, after the call.                                         *)
(***************************************************************************)
\* null: the request goes on to normal processing
Proceed == [ rejected |-> FALSE ]

\* a checkRateLimit that turns the request away when the binding is missing
CheckRateLimitUnboundBlocks(s) ==
    [ storage |-> s, result |-> [ rejected |-> TRUE, status |-> 503 ],
      calls |-> 0, reads |-> {}, writes |-> <<>> ]

\* if (!env.RATE_LIMITER) return null: no call of the object, hence no
\* storage call, and the store s stays as it is
CheckRateLimitUnbound(s) ==
    [ storage |-> s, result |-> Proceed, calls |-> 0, reads |-> {}, writes |-> <<>> ]

\* Math.max(0, x)
Max0(x) == IF IsNaN(x) THEN NaN ELSE IF x < 0 THEN 0 ELSE x

\* a checkRateLimit without the catch block: the exception of the object is
\* the request's failure
CheckRateLimitFailClosed(response, p) ==
    IF response.kind = "exception" \/ ~response.allowed
    THEN [ rejected |-> TRUE, status |-> 500 ]
    ELSE Proceed

\* a checkRateLimit that takes the per-IP denial for the global one
CheckRateLimitSwapped(response, p) ==
    IF response.kind = "exception" THEN Proceed
    ELSE IF ~response.allowed
    THEN LET isGlobalLimit == response.reason = "per_ip_limit"
             limitValue    == IF isGlobalLimit THEN p.globalRateLimit ELSE p.rateLimit
             windowValue   == IF isGlobalLimit THEN p.globalWindowSeconds ELSE p.windowSeconds
         IN  [ rejected   |-> TRUE,
               status     |-> 429,
               limit      |-> limitValue,
               retryAfter |-> windowValue,
               remaining  |-> Max0(JsSub(limitValue, response.count)),
               reset      |-> response.resetTime,
               type       |-> IF isGlobalLimit THEN "global" ELSE "per IP" ]
    ELSE Proceed

\* what checkRateLimit returns for a response of the object: the catch block
\* for an exception, the 429 for allowed = false, null otherwise
CheckRateLimitResult(response, p) ==
    IF response.kind = "exception" THEN Proceed
    ELSE IF ~response.allowed
    THEN LET isGlobalLimit == response.reason = "global_limit"
             limitValue    == IF isGlobalLimit THEN p.globalRateLimit ELSE p.rateLimit
             windowValue   == IF isGlobalLimit THEN p.globalWindowSeconds ELSE p.windowSeconds
         IN  [ rejected   |-> TRUE,
               status     |-> 429,
               limit      |-> limitValue,
               retryAfter |-> windowValue,
               remaining  |-> Max0(JsSub(limitValue, response.count)),
               reset      |-> response.resetTime,
               type       |-> IF isGlobalLimit THEN "global" ELSE "per IP" ]
    ELSE Proceed

(***************************************************************************)
(* createServer: getDOAgentInstances, the validation of the agent          *)
(* configuration.                                                          *)
(***************************************************************************)
\* s.split(sep)
RECURSIVE SplitOn(_, _)
SplitOn(s, sep) ==
    IF \A i \in 1..Len(s) : s[i] # sep THEN <<s>>
    ELSE LET c == Min({i \in 1..Len(s) : s[i] = sep})
         IN  <<SubSeq(s, 1, c - 1)>> \o SplitOn(SubSeq(s, c + 1, Len(s)), sep)

\* s.trim(), for text whose only white space is the blank
RECURSIVE TrimStart(_)
TrimStart(s) == IF s # <<>> /\ Head(s) = " " THEN TrimStart(Tail(s)) ELSE s

RECURSIVE TrimEnd(_)
TrimEnd(s) ==
    IF s # <<>> /\ s[Len(s)] = " " THEN TrimEnd(SubSeq(s, 1, Len(s) - 1)) ELSE s

Trim(s) == TrimEnd(TrimStart(s))

\* text.split(',').map(s => s.trim())
TrimmedItems(text) ==
    LET items == SplitOn(text, ",") IN [i \in 1..Len(items) |-> Trim(items[i])]

\* text.split(',').map(s => s.trim()).filter(s => s)
IsText(x) == x # <<>>

NonEmptyItems(text) == SelectSeq(TrimmedItems(text), IsText)

ChatCompletionsPath ==
    << "/", "a", "p", "i", "/", "v", "1", "/", "c", "h", "a", "t", "/",
       "c", "o", "m", "p", "l", "e", "t", "i", "o", "n", "s" >>

\* endpoint.replace(/\/api\/v1\/chat\/completions$/, '')
StripChatCompletions(endpoint) ==
    LET n == Len(endpoint)
        m == Len(ChatCompletionsPath)
    IN  IF m <= n /\ SubSeq(endpoint, n - m + 1, n) = ChatCompletionsPath
        THEN SubSeq(endpoint, 1, n - m)
        ELSE endpoint

DefaultDescription ==
    << "D", "e", "f", "a", "u", "l", "t", " ", "D", "O", " ", "A", "g",
       "e", "n", "t", " ", "i", "n", "s", "t", "a", "n", "c", "e" >>

DescriptionPrefix ==
    << "D", "O", " ", "A", "g", "e", "n", "t", ":", " " >>

\* throw new Error(...): no instance is returned
AgentError(why) == [ ok |-> FALSE, error |-> why, instances |-> <<>> ]

\* a validation that leaves out the test for mixed single and multi settings
GetDOAgentInstancesMixed(env) ==
    LET hasMultiEndpoints == env.DO_AGENT_ENDPOINTS # <<>>
        hasMultiTokens    == env.DO_AGENT_TOKENS # <<>>
        hasSingleEndpoint == env.DO_AGENT_ENDPOINT # <<>>
        hasSingleToken    == env.DO_AGENT_TOKEN # <<>>
        endpoints         == NonEmptyItems(env.DO_AGENT_ENDPOINTS)
        tokens            == NonEmptyItems(env.DO_AGENT_TOKENS)
    IN  IF hasMultiEndpoints /\ hasMultiTokens
        THEN IF Len(endpoints) # Len(tokens) THEN AgentError("mismatch")
             ELSE IF Len(endpoints) = 0 THEN AgentError("empty")
             ELSE [ ok |-> TRUE, error |-> "",
                    instances |-> [i \in 1..Len(endpoints) |->
                        [ endpoint    |-> StripChatCompletions(endpoints[i]),
                          token       |-> tokens[i],
                          description |-> DescriptionPrefix \o endpoints[i],
                          is_default  |-> i = 1 ]] ]
        ELSE IF hasSingleEndpoint /\ hasSingleToken
        THEN [ ok |-> TRUE, error |-> "",
               instances |-> << [ endpoint    |-> StripChatCompletions(env.DO_AGENT_ENDPOINT),
                                  token       |-> env.DO_AGENT_TOKEN,
                                  description |-> DefaultDescription,
                                  is_default  |-> TRUE ] >> ]
        ELSE AgentError("incomplete")

\* getDOAgentInstances(): the instances, or the error it throws
GetDOAgentInstances(env) ==
    LET hasMultiEndpoints == env.DO_AGENT_ENDPOINTS # <<>>
        hasMultiTokens    == env.DO_AGENT_TOKENS # <<>>
        hasSingleEndpoint == env.DO_AGENT_ENDPOINT # <<>>
        hasSingleToken    == env.DO_AGENT_TOKEN # <<>>
        endpoints         == NonEmptyItems(env.DO_AGENT_ENDPOINTS)
        tokens            == NonEmptyItems(env.DO_AGENT_TOKENS)
        descriptions      == IF env.DO_AGENT_DESCRIPTIONS = <<>> THEN <<>>
                             ELSE TrimmedItems(env.DO_AGENT_DESCRIPTIONS)
    IN  IF (hasMultiEndpoints \/ hasMultiTokens) /\ (hasSingleEndpoint \/ hasSingleToken)
        THEN AgentError("conflict")
        ELSE IF hasMultiEndpoints /\ hasMultiTokens
        THEN IF Len(endpoints) # Len(tokens) THEN AgentError("mismatch")
             ELSE IF Len(endpoints) = 0 THEN AgentError("empty")
             ELSE IF \E i \in 1..Len(endpoints) : endpoints[i] = <<>> \/ tokens[i] = <<>>
             THEN AgentError("empty item")
             ELSE [ ok |-> TRUE, error |-> "",
                    instances |-> [i \in 1..Len(endpoints) |->
                        [ endpoint    |-> StripChatCompletions(endpoints[i]),
                          token       |-> tokens[i],
                          description |-> IF i <= Len(descriptions) /\ descriptions[i] # <<>>
                                          THEN descriptions[i]
                                          ELSE DescriptionPrefix \o endpoints[i],
                          is_default  |-> i = 1 ]] ]
        ELSE IF hasSingleEndpoint /\ hasSingleToken
        THEN [ ok |-> TRUE, error |-> "",
               instances |-> << [ endpoint    |-> StripChatCompletions(env.DO_AGENT_ENDPOINT),
                                  token       |-> env.DO_AGENT_TOKEN,
                                  description |-> DefaultDescription,
                                  is_default  |-> TRUE ] >> ]
        ELSE IF hasMultiEndpoints /\ ~hasMultiTokens THEN AgentError("endpoints without tokens")
        ELSE IF ~hasMultiEndpoints /\ hasMultiTokens THEN AgentError("tokens without endpoints")
        ELSE IF hasSingleEndpoint /\ ~hasSingleToken THEN AgentError("endpoint without token")
        ELSE IF ~hasSingleEndpoint /\ hasSingleToken THEN AgentError("token without endpoint")
        ELSE AgentError("none")

(***************************************************************************)
(* default.fetch, after checkRateLimit.                                    *)
(***************************************************************************)
\* a handler that answers the CORS preflight before it checks the rate limit
DefaultFetchPreflightFirst(method, rateLimitResponse) ==
    IF method = "OPTIONS" THEN [ status |-> 200, stage |-> "preflight" ]
    ELSE IF rateLimitResponse.rejected
    THEN [ status |-> rateLimitResponse.status, stage |-> "rate_limit" ]
    ELSE IF method # "POST" THEN [ status |-> 405, stage |-> "method" ]
    ELSE [ status |-> 200, stage |-> "dispatch" ]

\* The response of default.fetch to a request with this method, given what
\* checkRateLimit returned: the 429 as it is, else the preflight answer, else
\* the 405 of a method other than POST, else the request body goes to the
\* JSON-RPC dispatcher (server.handleRequest), which is outside the model.
DefaultFetch(method, rateLimitResponse) ==
    IF rateLimitResponse.rejected
    THEN [ status |-> rateLimitResponse.status, stage |-> "rate_limit" ]
    ELSE IF method = "OPTIONS" THEN [ status |-> 200, stage |-> "preflight" ]
    ELSE IF method # "POST" THEN [ status |-> 405, stage |-> "method" ]
    ELSE [ status |-> 200, stage |-> "dispatch" ]

(***************************************************************************)
(* The environments of the model: limits and window lengths (seconds).     *)
(***************************************************************************)
EnvOf(l, w, g, gw) ==
    [ RATE_LIMIT_PER_WINDOW            |-> NumToString(l),
      RATE_LIMIT_WINDOW_SECONDS        |-> NumToString(w),
      GLOBAL_RATE_LIMIT_PER_WINDOW     |-> NumToString(g),
      GLOBAL_RATE_LIMIT_WINDOW_SECONDS |-> NumToString(gw),
      RATE_LIMITER                     |-> TRUE ]

\* limit 1 per client and 2 globally, with equal and with different windows
Envs == { EnvOf(1, 1, 2, 1), EnvOf(1, 1, 2, 2), EnvOf(1, 2, 2, 1) }

\* limit 2 per client and 2 globally
EnvTwo == EnvOf(2, 1, 2, 1)

\* a global window three times as long as the client window
EnvLongGlobal == EnvOf(1, 1, 3, 3)

\* the scenario of the specification's section 8
ScenarioEnv == EnvOf(2, 60, 3, 60)

SettingNames == { "RATE_LIMIT_PER_WINDOW", "RATE_LIMIT_WINDOW_SECONDS",
                  "GLOBAL_RATE_LIMIT_PER_WINDOW", "GLOBAL_RATE_LIMIT_WINDOW_SECONDS" }

\* values of a setting that are no limit and no window length: zero, a
\* negative number, text that is not a number
InvalidTexts == { <<"0">>, <<"-", "1">>, <<"x">> }

\* the environments with one of the four settings invalid
InvalidEnvs ==
    { [EnvOf(1, 1, 2, 1) EXCEPT ![name] = text] :
          name \in SettingNames, text \in InvalidTexts }

Params == RateLimitParams(cfg)

ClientWindowMs == JsMul(Params.windowSeconds, 1000)

GlobalWindowMs == JsMul(Params.globalWindowSeconds, 1000)

\* the window lengths that are lengths: a number above 0
PositiveWindows == {w \in {ClientWindowMs, GlobalWindowMs} : ~IsNaN(w) /\ w > 0}

MaxNow == MaxPeriods * (IF PositiveWindows = {} THEN 0 ELSE Min(PositiveWindows))

\* the instants the clock of the model stops at: the last millisecond of the
\* current client or global window, the first of the next, one period later
NextTimes ==
    { t \in { now + 1,
              JsSub(JsAdd(WindowStart(now, Params.windowSeconds), ClientWindowMs), 1),
              JsSub(JsAdd(WindowStart(now, Params.globalWindowSeconds), GlobalWindowMs), 1),
              JsAdd(now, ClientWindowMs),
              JsAdd(now, GlobalWindowMs) } :
        /\ ~IsNaN(t)
        /\ t > now
        /\ t <= MaxNow
        /\ t = now + 1 =>
             \/ WindowStart(t, Params.windowSeconds) = t
             \/ WindowStart(t, Params.globalWindowSeconds) = t }

(***************************************************************************)
(* Observation of the verdicts (not program state).                        *)
(***************************************************************************)
EmptyStorage == [k \in {} |-> 0]

\* no denial of the client is waiting for its reset time
NoDenial == {}

\* The reset time of the client's latest denial, as a set of one time, kept
\* until the client's first check at or after that time: was is the value
\* before the check at time t.
PendingReset(was, response, t) ==
    IF response.kind = "denied" THEN {response.resetTime}
    ELSE IF \E reset \in was : JsGe(t, reset) THEN NoDenial
    ELSE was

NoCheck ==
    [ clientIP |-> <<>>, headers |-> FromCloudflare(<<>>), method |-> "", at |-> 0,
      before |-> EmptyStorage,
      http |-> [ status |-> 0, stage |-> "none" ],
      response |-> [kind |-> "none"], result |-> Proceed,
      calls |-> 0, reads |-> {}, writes |-> <<>>, prior |-> 0, priorGlobal |-> 0,
      pending |-> NoDenial ]

\* getDOAgentInstances has not run yet
NotCalled == [ ok |-> FALSE, error |-> "not called", instances |-> <<>> ]

\* Allowed verdicts counted so far in window w, from the entry e of a scope
IssuedIn(e, w) == IF e.window = w THEN e.n ELSE 0

\* counting stops one above the limit
Counted(e, w, allowed, limit) ==
    [ window |-> w,
      n      |-> IF allowed /\ IssuedIn(e, w) <= limit
                 THEN IssuedIn(e, w) + 1 ELSE IssuedIn(e, w) ]

\* The highest count each of the keys has been stored with, after the store
\* became s.  Only the keys of the windows of the present time are followed:
\* the clock does not go back, so no entry of a past window is created again.
Peak(peak, s, keys) ==
    [ key \in (DOMAIN peak \cup DOMAIN s) \cap keys |->
        IF StorageGet(peak, key) > StorageGet(s, key)
        THEN StorageGet(peak, key) ELSE StorageGet(s, key) ]

(***************************************************************************)
(* Actions.                                                                *)
(***************************************************************************)
InitWithMethods(env, clients, ms, t) ==
    /\ now = t
    /\ cfg = env
    /\ population = clients
    /\ carried = {FromCloudflare(ip) : ip \in clients}
    /\ methods = ms
    /\ storage = EmptyStorage
    /\ inflight = EmptyBag
    /\ faults = 0
    /\ agents = NotCalled
    /\ last = NoCheck
    /\ issued = [ client |-> [ip \in ClientIPs |-> [window |-> 0, n |-> 0]],
                  global |-> [window |-> 0, n |-> 0],
                  peak   |-> EmptyStorage,
                  reset  |-> [ip \in {} |-> NoDenial] ]

\* the same, with the denials of the clients followed
InitFollowingDenials(env, clients, t) ==
    /\ now = t
    /\ cfg = env
    /\ population = clients
    /\ carried = {FromCloudflare(ip) : ip \in clients}
    /\ methods = {"POST"}
    /\ storage = EmptyStorage
    /\ inflight = EmptyBag
    /\ faults = 0
    /\ agents = NotCalled
    /\ last = NoCheck
    /\ issued = [ client |-> [ip \in ClientIPs |-> [window |-> 0, n |-> 0]],
                  global |-> [window |-> 0, n |-> 0],
                  peak   |-> EmptyStorage,
                  reset  |-> [ip \in clients |-> NoDenial] ]

\* the four agent settings: unset, one item, two items, an item and a blank
\* one, no item at all
EndpointTexts ==
    { <<>>, <<"e">>, <<"e", ",", "f">>, <<"e", ",", " ">>, <<",">> }

TokenTexts == { <<>>, <<"t">>, <<"t", ",", "u">>, <<",", " ">> }

AgentEnvs ==
    { [ DO_AGENT_ENDPOINT     |-> se,
        DO_AGENT_TOKEN        |-> st,
        DO_AGENT_ENDPOINTS    |-> me,
        DO_AGENT_TOKENS       |-> mt,
        DO_AGENT_DESCRIPTIONS |-> <<>> ] :
          se \in {<<>>, <<"e">>}, st \in {<<>>, <<"t">>},
          me \in EndpointTexts, mt \in TokenTexts }

\* the behaviours of the limiter proper: every request is a POST
InitWith(env, clients, t) == InitWithMethods(env, clients, {"POST"}, t)

Init ==
    \/ \E env \in Envs : \E clients \in Populations : InitWith(env, clients, 0)
    \/ \E clients \in {{IpA, IpAB}, {IpA, IpColonNum}} : InitWith(EnvTwo, clients, 0)

\* checkRateLimit up to rateLimiterObject.fetch(...): the call is on its way
SendCheck(request) ==
    /\ cfg.RATE_LIMITER
    /\ BagCardinality(inflight) < MaxInFlight
    /\ inflight' = inflight (+) SetToBag({request})
    /\ UNCHANGED <<now, cfg, population, carried, methods, storage, faults, agents, last, issued>>

\* The object handles one call from its queue, checkRateLimit finishes with
\* the response and default.fetch answers the request.  The Durable Object runs one fetch at a time: its input
\* gate holds back other events while this one awaits its storage calls.
Handle(request, failAt) ==
    \E p \in {Params} :
    \E clientIP \in {ClientIP(request.headers)} :
    \E r \in {Fetch(storage, RateLimitUrl(clientIP, p), now, failAt)} :
    \E result \in {CheckRateLimitResult(r.response, p)} :
    LET ok  == r.response.kind = "allowed"
        cw  == WindowStart(now, p.windowSeconds)
        gw  == WindowStart(now, p.globalWindowSeconds)
    IN  /\ BagIn(request, inflight)
        /\ inflight' = inflight (-) SetToBag({request})
        /\ storage' = r.storage
        /\ last' = [ clientIP    |-> clientIP,
                     headers     |-> request.headers,
                     method      |-> request.method,
                     at          |-> now,
                     before      |-> storage,
                     response    |-> r.response,
                     result      |-> result,
                     http        |-> DefaultFetch(request.method, result),
                     calls       |-> r.calls,
                     reads       |-> r.reads,
                     writes      |-> r.writes,
                     prior       |-> IssuedIn(issued.client[clientIP], cw),
                     priorGlobal |-> IssuedIn(issued.global, gw),
                     pending     |-> IF clientIP \in DOMAIN issued.reset
                                     THEN issued.reset[clientIP] ELSE NoDenial ]
        /\ issued' = [ client |-> [issued.client EXCEPT ![clientIP] =
                                      Counted(@, cw, ok, p.rateLimit)],
                       global |-> Counted(issued.global, gw, ok, p.globalRateLimit),
                       peak   |-> Peak(issued.peak, r.storage,
                                      {WindowKey(ip, cw) : ip \in population}
                                          \cup {GlobalWindowKey(gw)}),
                       reset  |-> [ip \in DOMAIN issued.reset |->
                                      IF ip = clientIP
                                      THEN PendingReset(issued.reset[ip], r.response, now)
                                      ELSE issued.reset[ip]] ]
        /\ UNCHANGED <<now, cfg, population, carried, methods, agents>>

\* RateLimiter.fetch with every storage call succeeding
RateLimiterFetch(request) ==
    /\ Handle(request, 0)
    /\ UNCHANGED faults

\* RateLimiter.fetch whose failAt-th storage call throws
RateLimiterFetchThrows(request, failAt) ==
    /\ BagIn(request, inflight)
    /\ faults < MaxFaults
    /\ failAt <= Fetch(storage, RateLimitUrl(ClientIP(request.headers), Params), now, 0).calls
    /\ Handle(request, failAt)
    /\ faults' = faults + 1

\* checkRateLimit in a deployment without the RATE_LIMITER binding, and the
\* answer of default.fetch to the request
CheckRateLimitWithoutBinding(request) ==
    \E p \in {Params} :
    \E clientIP \in {ClientIP(request.headers)} :
    \E r \in {CheckRateLimitUnbound(storage)} :
    LET cw == WindowStart(now, p.windowSeconds)
        gw == WindowStart(now, p.globalWindowSeconds)
    IN  /\ ~cfg.RATE_LIMITER
        /\ storage' = r.storage
        /\ last' = [ clientIP    |-> clientIP,
                     headers     |-> request.headers,
                     method      |-> request.method,
                     at          |-> now,
                     before      |-> storage,
                     response    |-> [kind |-> "none"],
                     result      |-> r.result,
                     http        |-> DefaultFetch(request.method, r.result),
                     calls       |-> r.calls,
                     reads       |-> r.reads,
                     writes      |-> r.writes,
                     prior       |-> IssuedIn(issued.client[clientIP], cw),
                     priorGlobal |-> IssuedIn(issued.global, gw),
                     pending     |-> NoDenial ]
        /\ issued' = [ issued EXCEPT
                         !.client[clientIP] =
                             Counted(@, cw, ~r.result.rejected, p.rateLimit),
                         !.global =
                             Counted(@, gw, ~r.result.rejected, p.globalRateLimit) ]
        /\ UNCHANGED <<now, cfg, population, carried, methods, inflight, faults, agents>>

\* time passes
Tick(t) ==
    /\ t \in NextTimes
    /\ now' = t
    /\ UNCHANGED <<cfg, population, carried, methods, storage, inflight, faults, agents, last, issued>>

\* A request that reached the JSON-RPC dispatcher runs a handler of
\* createServer, which calls getDOAgentInstances().
CallGetDOAgentInstances ==
    /\ last.http.stage = "dispatch"
    /\ agents' = GetDOAgentInstances(cfg)
    /\ UNCHANGED <<now, cfg, population, carried, methods, storage, inflight, faults, last, issued>>

\* the most storage calls one fetch can make in the model
MaxCalls == 5 + Cardinality(DOMAIN storage) + 2

\* the requests of this behaviour
Requests == [headers : carried, method : methods]

Next ==
    \/ \E request \in Requests : SendCheck(request)
    \/ \E request \in Requests : RateLimiterFetch(request)
    \/ \E t \in NextTimes : Tick(t)

NextWithErrors ==
    \/ Next
    \/ \E request \in Requests : \E failAt \in 1..MaxCalls :
          RateLimiterFetchThrows(request, failAt)

\* the behaviours in which no storage call fails
Spec == Init /\ [][Next]_vars

\* the scenario of section 8: limits 2 and 3, both windows 60 s, clients A = a
\* and B = ab, an empty store at now = 1000
InitScenario == InitWith(ScenarioEnv, {IpA, IpAB}, 1000)

SpecScenario == InitScenario /\ [][Next]_vars

\* the behaviours in which storage calls may throw, for one environment and
\* one pair of clients, the clock starting at 1000
InitErrors == InitWith(EnvOf(1, 1, 2, 1), {IpA, IpAB}, 1000)

SpecStorageErrors == InitErrors /\ [][NextWithErrors]_vars

\* the behaviours in which the denials of the clients are followed up to
\* their reset times
InitDenials ==
    \E env \in Envs : \E clients \in {{IpA, IpAB}, {IpA, IpGlobal}} :
        InitFollowingDenials(env, clients, 0)

SpecDenials == InitDenials /\ [][Next]_vars

\* The behaviours in which the requests carry all three headers, the last
\* two, the last one or none, with the clock of the model in its last period.
HeaderSets ==
    { [ cf |-> IpA,  xff |-> IpAB, xri |-> IpA ],
      [ cf |-> <<>>, xff |-> IpAB, xri |-> IpA ],
      [ cf |-> <<>>, xff |-> <<>>, xri |-> IpA ],
      [ cf |-> <<>>, xff |-> <<>>, xri |-> <<>> ] }

InitHeaders ==
    /\ now = (MaxPeriods - 1) * 1000
    /\ cfg = EnvOf(1, 1, 2, 1)
    /\ population = {ClientIP(headers) : headers \in HeaderSets}
    /\ carried = HeaderSets
    /\ methods = {"POST"}
    /\ storage = EmptyStorage
    /\ inflight = EmptyBag
    /\ faults = 0
    /\ agents = NotCalled
    /\ last = NoCheck
    /\ issued = [ client |-> [ip \in ClientIPs |-> [window |-> 0, n |-> 0]],
                  global |-> [window |-> 0, n |-> 0],
                  peak   |-> EmptyStorage,
                  reset  |-> [ip \in {} |-> NoDenial] ]

SpecHeaders == InitHeaders /\ [][Next]_vars

\* the behaviours of a deployment with the RATE_LIMITER binding and of one
\* without it
InitUnbound ==
    \E bound \in BOOLEAN :
        InitWith([EnvOf(1, 1, 2, 1) EXCEPT !.RATE_LIMITER = bound], {IpA, IpAB}, 0)

NextUnbound ==
    \/ Next
    \/ \E request \in Requests : CheckRateLimitWithoutBinding(request)

SpecUnbound == InitUnbound /\ [][NextUnbound]_vars

\* the same deployment with a client whose identifier holds a ':', as the
\* text of an IPv6 address does
InitSweepErrors == InitWith(EnvOf(1, 1, 2, 1), {IpA, IpColonNum}, 1000)

SpecSweepErrors == InitSweepErrors /\ [][NextWithErrors]_vars

\* the behaviours of a deployment with one invalid rate-limit setting
InitInvalid == \E env \in InvalidEnvs : InitWith(env, {IpA, IpAB}, 0)

SpecInvalidConfig == InitInvalid /\ [][Next]_vars

\* the behaviours of a deployment with none of the four settings configured:
\* one client, and the clock of the model in its last period
UnsetEnv == [name \in SettingNames |-> <<>>] @@ [RATE_LIMITER |-> TRUE]

InitUnset ==
    InitWith(UnsetEnv, {IpA},
             (MaxPeriods - 1) * JsMul(RateLimitParams(UnsetEnv).windowSeconds, 1000))

SpecUnsetConfig == InitUnset /\ [][Next]_vars

\* the behaviours of the JSON-RPC handlers, for every agent configuration
InitAgents ==
    \E agentEnv \in AgentEnvs :
        InitWith(EnvOf(1, 1, 2, 1) @@ agentEnv, {IpA}, 0)

NextWithAgents ==
    \/ Next
    \/ CallGetDOAgentInstances

SpecAgents == InitAgents /\ [][NextWithAgents]_vars

\* the behaviours with a global window of three client windows, for an
\* ordinary client and the client whose identifier is 'global'
InitLongGlobal == InitWith(EnvLongGlobal, {IpA, IpGlobal}, 0)

SpecLongGlobal == InitLongGlobal /\ [][Next]_vars

\* the behaviours of the HTTP handler: requests of every method
InitHttp == InitWithMethods(EnvOf(1, 1, 2, 1), {IpA, IpAB}, Methods, 0)

SpecHttp == InitHttp /\ [][Next]_vars

(***************************************************************************)
(* What the last check saw: the verdict and the counts it was decided on.  *)
(***************************************************************************)
\* the last check ended with a verdict of RateLimiter.fetch (no exception)
Verdict == last.response.kind \in {"allowed", "denied"}

LastAllowed == last.response.kind = "allowed"

LastDenied(reason) == last.response.kind = "denied" /\ last.response.reason = reason

LastClientWindow == WindowStart(last.at, Params.windowSeconds)

LastGlobalWindow == WindowStart(last.at, Params.globalWindowSeconds)

LastClientKey == WindowKey(last.clientIP, LastClientWindow)

LastGlobalKey == GlobalWindowKey(LastGlobalWindow)

\* the counts stored for the two scopes when the last check began
ClientCountBefore == StorageGet(last.before, LastClientKey)

GlobalCountBefore == StorageGet(last.before, LastGlobalKey)

(***************************************************************************)
(* C1.  Within one client window, with the global quota not exhausted, a   *)
(* client's calls are Allowed exactly while fewer than L Allowed verdicts  *)
(* have been issued to it in that window, and Denied per-client after:     *)
(* the first L calls are Allowed, every later one is Denied per-client.    *)
(***************************************************************************)
C1_FirstLAllowedRestDenied ==
    (Verdict /\ Params.rateLimit >= 1 /\ ~LastDenied("global_limit")) =>
        IF last.prior < Params.rateLimit
        THEN LastAllowed
        ELSE LastDenied("per_ip_limit")

(***************************************************************************)
(* C2.  The number of Allowed verdicts issued for a (scope, window) never  *)
(* exceeds the limit of the scope, for each client and for the global      *)
(* scope.                                                                  *)
(***************************************************************************)
C2_NoOvershoot ==
    /\ \A clientIP \in ClientIPs : issued.client[clientIP].n <= Params.rateLimit
    /\ issued.global.n <= Params.globalRateLimit

(***************************************************************************)
(* C3.  As claimed: once the global count of the current global window has *)
(* reached global_limit, a check by any client is Denied with reason       *)
(* global.                                                                 *)
(***************************************************************************)
C3_GlobalDenialWhoeverAsks ==
    (Verdict /\ GlobalCountBefore >= Params.globalRateLimit) =>
        LastDenied("global_limit")

(***************************************************************************)
(* C3, amended.  Once the global count of the current global window has    *)
(* reached global_limit, a check by any client is Denied: with reason      *)
(* per-client when the count stored under the client's own key is at or    *)
(* above client_limit (that test comes first), with reason global          *)
(* otherwise, which includes every client whose own count is 0.            *)
(***************************************************************************)
C3_GlobalLimitDenies ==
    (Verdict /\ GlobalCountBefore >= Params.globalRateLimit) =>
        IF ClientCountBefore >= Params.rateLimit
        THEN LastDenied("per_ip_limit")
        ELSE LastDenied("global_limit")

\* a client with no entry at all in the store is denied for the global quota
C3_Witness ==
    /\ LastDenied("global_limit")
    /\ GlobalCountBefore >= Params.globalRateLimit
    /\ ClientCountBefore = 0
    /\ \A key \in DOMAIN last.before : ~StartsWith(key, last.clientIP)

(***************************************************************************)
(* C4.  A check that returns Denied leaves the whole counter store as it   *)
(* was: no entry is created, incremented or deleted.                       *)
(***************************************************************************)
C4_DeniedLeavesStore == last.response.kind = "denied" => storage = last.before

\* both kinds of denial have happened on a store that holds entries
C4_Witness ==
    /\ LastDenied("global_limit")
    /\ \E key \in DOMAIN storage : StartsWith(key, IpA)
    /\ storage = last.before

(***************************************************************************)
(* C5.  When a storage call of a check throws (a get, a put, the list or a *)
(* delete), checkRateLimit returns no rejection: the request proceeds to   *)
(* normal processing and the error is not returned to the client.          *)
(***************************************************************************)
C5_FailOpen == last.response.kind = "exception" => ~last.result.rejected

\* a delete of the clean-up loop has thrown, after the two puts and the list
C5_Witness ==
    /\ last.response.kind = "exception"
    /\ last.calls >= 6
    /\ ~last.result.rejected

(***************************************************************************)
(* C6.  When the client's count is at or above client_limit the verdict is *)
(* Denied per-client, whatever the global count, and the global counter is *)
(* neither read nor written by that call.                                  *)
(***************************************************************************)
C6_PerClientFirst ==
    (Verdict /\ ClientCountBefore >= Params.rateLimit) =>
        /\ LastDenied("per_ip_limit")
        /\ LastGlobalKey \notin last.reads
        /\ storage = last.before

(***************************************************************************)
(* C7.  A check at now = window_start uses another counter entry than a    *)
(* check at now = window_start - 1, so a client that exhausted its quota   *)
(* in the window ending at window_start is counted from 0 again by its     *)
(* first check at now = window_start.                                      *)
(***************************************************************************)
C7_BoundaryStartsAfresh ==
    (/\ Verdict
     /\ last.at > 0
     /\ last.at = LastClientWindow
     /\ last.prior = 0
     /\ StorageGet(last.before,
                   WindowKey(last.clientIP,
                             WindowStart(last.at - 1, Params.windowSeconds)))
           >= Params.rateLimit) =>
        /\ LastClientKey #
              WindowKey(last.clientIP, WindowStart(last.at - 1, Params.windowSeconds))
        /\ ClientCountBefore = 0

(***************************************************************************)
(* C8.  With different window lengths, the count a check reads for the     *)
(* client is the number of Allowed verdicts of the client since the last   *)
(* multiple of client_window_ms, and the count it reads for the global     *)
(* scope is the number of Allowed verdicts since the last multiple of      *)
(* global_window_ms: each count restarts at its own boundary and nowhere   *)
(* else.                                                                   *)
(***************************************************************************)
C8_OwnBoundaryOnly ==
    (Verdict /\ Params.windowSeconds # Params.globalWindowSeconds) =>
        /\ ClientCountBefore = last.prior
        /\ LastGlobalKey \in last.reads => GlobalCountBefore = last.priorGlobal

(***************************************************************************)
(* C9.  Limits 2 and 3, both windows 60000 ms, an empty store, every call  *)
(* at now = 1000: A's calls give Allowed(1), Allowed(2), Denied(per-       *)
(* client, count 2, limit 2); then B's calls give Allowed(client count 1,  *)
(* global count 3) and Denied(global).                                     *)
(***************************************************************************)
\* the stores of the scenario after A's first and second call and B's first
ScenarioStore(a, b, g) ==
    LET s1 == StoragePut(EmptyStorage, WindowKey(IpA, 0), a)
        s2 == IF b = 0 THEN s1 ELSE StoragePut(s1, WindowKey(IpAB, 0), b)
    IN  StoragePut(s2, GlobalWindowKey(0), g)

C9_Scenario ==
    (Verdict /\ last.at = 1000) =>
        /\ (last.clientIP = IpA /\ last.before = EmptyStorage) =>
               last.response = AllowedResponse(1, 2, 1, 3, 60000)
        /\ (last.clientIP = IpA /\ last.before = ScenarioStore(1, 0, 1)) =>
               last.response = AllowedResponse(2, 2, 2, 3, 60000)
        /\ (last.clientIP = IpA /\ last.before = ScenarioStore(2, 0, 2)) =>
               last.response = DeniedResponse(2, 2, 60000, "per_ip_limit")
        /\ (last.clientIP = IpAB /\ last.before = ScenarioStore(2, 0, 2)) =>
               last.response = AllowedResponse(1, 2, 3, 3, 60000)
        /\ (last.clientIP = IpAB /\ last.before = ScenarioStore(2, 1, 3)) =>
               LastDenied("global_limit")

\* the end of the scenario: B's second call, after A's three and B's first
C9_Witness ==
    /\ last.at = 1000
    /\ last.clientIP = IpAB
    /\ last.before = ScenarioStore(2, 1, 3)
    /\ storage = ScenarioStore(2, 1, 3)
    /\ last.response = DeniedResponse(3, 3, 60000, "global_limit")

(***************************************************************************)
(* C10.  After a check by a client that is Allowed, the store holds no     *)
(* entry of that client whose window ended two window lengths or more      *)
(* before the check (such an entry is older than one full period before    *)
(* the current window).                                                    *)
(***************************************************************************)
\* the window starts at or before t, multiples of the client window length
WindowsUpTo(t) == {k * ClientWindowMs : k \in 0..(t \div ClientWindowMs)}

C10_OldEntriesGone ==
    LastAllowed =>
        \A w \in WindowsUpTo(last.at) :
            w + 3 * ClientWindowMs <= last.at =>
                WindowKey(last.clientIP, w) \notin DOMAIN storage

(***************************************************************************)
(* C11.  In every reachable state no counter entry is stored whose window  *)
(* began more than two window lengths of its scope ago: no entry of a      *)
(* client with window start w while now - w > 2 * client_window_ms, no     *)
(* entry of the global scope while now - w > 2 * global_window_ms.         *)
(***************************************************************************)
\* the window starts at or before t, multiples of the global window length
GlobalWindowsUpTo(t) == {k * GlobalWindowMs : k \in 0..(t \div GlobalWindowMs)}

C11_NoEntryOutlivesTwoPeriods ==
    /\ \A clientIP \in population : \A w \in WindowsUpTo(now) :
          WindowKey(clientIP, w) \in DOMAIN storage => now - w <= 2 * ClientWindowMs
    /\ \A w \in GlobalWindowsUpTo(now) :
          GlobalWindowKey(w) \in DOMAIN storage => now - w <= 2 * GlobalWindowMs

(***************************************************************************)
(* C12.  The key of a client's entry is never the key of a global entry:   *)
(* for every client identifier that reaches the limiter and every pair of  *)
(* window starts, the two keys differ, so a check reads and writes two     *)
(* different entries for the client and for the global scope.              *)
(***************************************************************************)
C12_ScopesNeverCollide ==
    Verdict =>
        /\ \A w \in WindowsUpTo(now) : \A g \in GlobalWindowsUpTo(now) :
              WindowKey(last.clientIP, w) # GlobalWindowKey(g)
        /\ LastClientKey # LastGlobalKey

(***************************************************************************)
(* C13.  With a limit or a window length set to a value that is not a      *)
(* positive number (0, a negative number, text that is no number), no      *)
(* check ends with an Allowed or Denied verdict computed from that value:  *)
(* the setting is rejected as a configuration error.                       *)
(***************************************************************************)
\* a setting that is set, and parses to NaN or to a number below 1
ConfigInvalid ==
    \E name \in SettingNames :
        /\ cfg[name] # <<>>
        /\ IsNaN(ParseInt(cfg[name])) \/ ParseInt(cfg[name]) <= 0

C13_InvalidConfigRejected ==
    (ConfigInvalid /\ last.response.kind # "none") => ~Verdict

(***************************************************************************)
(* C14.  Every request, whatever its method, goes through the rate-limit   *)
(* check before anything else: a request whose verdict is Denied is        *)
(* answered with the 429 and goes no further, and a request that got as    *)
(* far as the preflight answer, the 405 or the JSON-RPC dispatcher is one  *)
(* the check has Allowed.                                                  *)
(***************************************************************************)
C14_RateLimitBeforeAll ==
    last.response.kind # "none" =>
        /\ last.response.kind = "denied" =>
               last.http = [ status |-> 429, stage |-> "rate_limit" ]
        /\ last.http.stage # "rate_limit" => LastAllowed

\* a preflight request that was denied: it is answered with the 429
C14_Witness ==
    /\ last.method = "OPTIONS"
    /\ last.response.kind = "denied"
    /\ last.http.status = 429

(***************************************************************************)
(* C15.  The 429 names the quota that was exceeded: when the limiter       *)
(* denies with reason global_limit the body and headers carry type         *)
(* 'global', the global limit and the global window; when it denies with   *)
(* reason per_ip_limit they carry type 'per IP', the per-IP limit and the  *)
(* per-IP window.                                                          *)
(***************************************************************************)
C15_RejectionNamesQuota ==
    /\ LastDenied("global_limit") =>
          /\ last.result.rejected /\ last.result.status = 429
          /\ last.result.type = "global"
          /\ last.result.limit = Params.globalRateLimit
          /\ last.result.retryAfter = Params.globalWindowSeconds
    /\ LastDenied("per_ip_limit") =>
          /\ last.result.rejected /\ last.result.status = 429
          /\ last.result.type = "per IP"
          /\ last.result.limit = Params.rateLimit
          /\ last.result.retryAfter = Params.windowSeconds

\* a global denial where the two limits and the two windows differ
C15_Witness ==
    /\ LastDenied("global_limit")
    /\ last.result.type = "global"
    /\ Params.rateLimit # Params.globalRateLimit
    /\ Params.windowSeconds # Params.globalWindowSeconds

(***************************************************************************)
(* C16.  With none of the four rate-limit settings configured, the limiter *)
(* enforces the documented defaults, 75 requests per IP per 120 seconds    *)
(* and 100 requests globally per 120 seconds: the limits and windows of a  *)
(* check are these, and a request is denied per IP only at a count of 75   *)
(* and globally only at a count of 100.                                    *)
(***************************************************************************)
SettingsUnset == \A name \in SettingNames : cfg[name] = <<>>

C16_DocumentedDefaults ==
    (SettingsUnset /\ Verdict) =>
        /\ Params = [ rateLimit |-> 75, windowSeconds |-> 120,
                      globalRateLimit |-> 100, globalWindowSeconds |-> 120 ]
        /\ LastDenied("per_ip_limit") => last.response.count >= 75
        /\ LastDenied("global_limit") => last.response.count >= 100
        /\ LastAllowed => last.response.resetTime = WindowStart(last.at, 120) + 120000

(***************************************************************************)
(* C17.  getDOAgentInstances accepts exactly two shapes of the settings    *)
(* DO_AGENT_ENDPOINT, DO_AGENT_TOKEN, DO_AGENT_ENDPOINTS, DO_AGENT_TOKENS: *)
(* the single endpoint and the single token alone, or the endpoint list    *)
(* and the token list alone with the same number of items, at least one.   *)
(* Every other combination (single and multi settings mixed, different     *)
(* numbers of endpoints and tokens, an endpoint or a token missing) is an  *)
(* error and gives no agent instance.                                      *)
(***************************************************************************)
IsSet(name) == cfg[name] # <<>>

SingleShape ==
    /\ IsSet("DO_AGENT_ENDPOINT") /\ IsSet("DO_AGENT_TOKEN")
    /\ ~IsSet("DO_AGENT_ENDPOINTS") /\ ~IsSet("DO_AGENT_TOKENS")

MultiShape ==
    /\ IsSet("DO_AGENT_ENDPOINTS") /\ IsSet("DO_AGENT_TOKENS")
    /\ ~IsSet("DO_AGENT_ENDPOINT") /\ ~IsSet("DO_AGENT_TOKEN")
    /\ Len(NonEmptyItems(cfg.DO_AGENT_ENDPOINTS)) = Len(NonEmptyItems(cfg.DO_AGENT_TOKENS))
    /\ Len(NonEmptyItems(cfg.DO_AGENT_ENDPOINTS)) >= 1

C17_TwoShapesAccepted ==
    agents # NotCalled =>
        /\ agents.ok <=> (SingleShape \/ MultiShape)
        /\ SingleShape => Len(agents.instances) = 1
        /\ MultiShape =>
              Len(agents.instances) = Len(NonEmptyItems(cfg.DO_AGENT_ENDPOINTS))
        /\ ~agents.ok => agents.instances = <<>> /\ agents.error # ""

\* the endpoint and token lists with two items each are accepted
C17_Witness ==
    /\ agents.ok
    /\ MultiShape
    /\ Len(agents.instances) = 2

\* single and multi settings mixed are refused
C17_WitnessConflict ==
    /\ agents.error = "conflict"
    /\ IsSet("DO_AGENT_ENDPOINT") /\ IsSet("DO_AGENT_TOKEN")
    /\ IsSet("DO_AGENT_ENDPOINTS") /\ IsSet("DO_AGENT_TOKENS")

(***************************************************************************)
(* C18.  The window of a check at time now with window length w is         *)
(* window_start = now - (now mod w), window_end = window_start + w:        *)
(* window_start is a multiple of w and window_start <= now < window_end.   *)
(* The window is a function of (now, w) alone, so two checks with equal    *)
(* (now, w) use the same window id.  Observed on each verdict: the window  *)
(* end is the reset time of the response (of the global window for a       *)
(* global denial, of the client window otherwise), the window id the       *)
(* number in the key the check has read.                                   *)
(***************************************************************************)
\* the length of the window the response reports, and its start
LastWindowMs ==
    IF LastDenied("global_limit") THEN 1000 * Params.globalWindowSeconds
    ELSE 1000 * Params.windowSeconds

LastWindowId == last.response.resetTime - LastWindowMs

C18_WindowResolver ==
    Verdict =>
        /\ LastWindowId = last.at - (last.at % LastWindowMs)
        /\ LastWindowId % LastWindowMs = 0
        /\ LastWindowId <= last.at /\ last.at < LastWindowId + LastWindowMs
        /\ IF LastDenied("global_limit")
           THEN GlobalWindowKey(LastWindowId) \in last.reads
           ELSE WindowKey(last.clientIP, LastWindowId) \in last.reads

\* a check in the last millisecond of the second window of one second
C18_Witness ==
    /\ LastAllowed
    /\ Params.windowSeconds = 1
    /\ last.at = 1999
    /\ last.response.resetTime = 2000
    /\ WindowKey(last.clientIP, 1000) \in last.reads

(***************************************************************************)
(* C19.  While the entry of a (scope, window) is stored, its count is the  *)
(* number of checks of that scope and window that returned Allowed: for    *)
(* each client and for the global scope, in the window of the latest       *)
(* check, the stored count equals the number of Allowed verdicts issued.   *)
(***************************************************************************)
C19_CountIsAllowedCalls ==
    /\ \A clientIP \in population :
          LET key == WindowKey(clientIP, issued.client[clientIP].window)
          IN  key \in DOMAIN storage => storage[key] = issued.client[clientIP].n
    /\ LET key == GlobalWindowKey(issued.global.window)
       IN  key \in DOMAIN storage => storage[key] = issued.global.n

(***************************************************************************)
(* C20.  For a fixed (scope, window) the stored count never decreases      *)
(* between two states in which the entry exists: an entry that is stored   *)
(* holds the highest count it has ever been stored with.  An entry leaves  *)
(* the store only by a deletion of the clean-up loop of an Allowed check.  *)
(***************************************************************************)
C20_CountNeverDecreases ==
    /\ \A key \in DOMAIN storage \cap DOMAIN issued.peak :
          storage[key] >= issued.peak[key]
    /\ \A key \in DOMAIN last.before \ DOMAIN storage :
          /\ LastAllowed
          /\ KeyIsOld(key, last.clientIP, LastClientWindow, Params.windowSeconds,
                      LastGlobalWindow, Params.globalWindowSeconds)

(***************************************************************************)
(* C21.  An Allowed verdict comes after the two puts, of the client        *)
(* counter and then of the global counter, and reports the values          *)
(* written: count = the client count read + 1, globalCount = the global    *)
(* count read + 1, resetTime = the end of the client window.               *)
(***************************************************************************)
C21_AllowedReportsWritten ==
    LastAllowed =>
        /\ last.writes = << <<LastClientKey, ClientCountBefore + 1>>,
                            <<LastGlobalKey, GlobalCountBefore + 1>> >>
        /\ last.response.count = ClientCountBefore + 1
        /\ last.response.globalCount = GlobalCountBefore + 1
        /\ last.response.resetTime = LastClientWindow + ClientWindowMs

\* the second Allowed check of a client in a window, with different windows
C21_Witness ==
    /\ LastAllowed
    /\ last.response.count = 2
    /\ last.response.globalCount = 2
    /\ StorageGet(storage, LastClientKey) = 2

(***************************************************************************)
(* C22.  A Denied verdict carries the count, the limit and the reset time  *)
(* of the scope that caused it: a per-client denial the count read under   *)
(* the client's key, client_limit and the end of the client window; a      *)
(* global denial the count read under the global key, global_limit and the *)
(* end of the global window.  In both cases now < resetTime <= now + the   *)
(* window length of that scope.                                            *)
(***************************************************************************)
C22_DeniedReportsItsScope ==
    /\ LastDenied("per_ip_limit") =>
          /\ last.response.count = ClientCountBefore
          /\ last.response.limit = Params.rateLimit
          /\ last.response.resetTime = LastClientWindow + ClientWindowMs
          /\ last.at < last.response.resetTime
          /\ last.response.resetTime <= last.at + ClientWindowMs
    /\ LastDenied("global_limit") =>
          /\ last.response.count = GlobalCountBefore
          /\ last.response.limit = Params.globalRateLimit
          /\ last.response.resetTime = LastGlobalWindow + GlobalWindowMs
          /\ last.at < last.response.resetTime
          /\ last.response.resetTime <= last.at + GlobalWindowMs

\* a global denial in the second half of a global window twice as long as
\* the client window
C22_Witness ==
    /\ LastDenied("global_limit")
    /\ GlobalWindowMs = 2 * ClientWindowMs
    /\ LastClientWindow # LastGlobalWindow
    /\ last.response.resetTime = LastGlobalWindow + GlobalWindowMs

(***************************************************************************)
(* C23.  The clean-up of an Allowed check deletes exactly the stored       *)
(* entries of the calling client whose window start is below the current   *)
(* client window start minus the client window length, and the stored      *)
(* global entries whose window start is below the current global window    *)
(* start minus the global window length: the entries of the current and    *)
(* of the preceding window are kept, every older one of the two families   *)
(* is deleted, and nothing else is.                                        *)
(***************************************************************************)
\* the keys the last check found or wrote, and those of them it deleted
LastKeys == DOMAIN last.before \cup {last.writes[i][1] : i \in 1..Len(last.writes)}

LastDeleted == LastKeys \ DOMAIN storage

\* the entries of the two families of the last check that are older than the
\* window before the current one
LastExpired ==
    { WindowKey(last.clientIP, w) :
          w \in {v \in WindowsUpTo(last.at) : v < LastClientWindow - ClientWindowMs} }
    \cup
    { GlobalWindowKey(g) :
          g \in {v \in GlobalWindowsUpTo(last.at) : v < LastGlobalWindow - GlobalWindowMs} }

C23_SweepDeletesExactlyExpired ==
    LastAllowed => LastDeleted = LastExpired \cap LastKeys

(***************************************************************************)
(* C24.  As claimed: the clean-up runs after every decision, Allowed or    *)
(* Denied, so after each verdict no key that passes the test of the        *)
(* clean-up loop of that check is left in the store.                       *)
(***************************************************************************)
\* the test of the clean-up loop of the last check
LastKeyIsOld(key) ==
    KeyIsOld(key, last.clientIP, LastClientWindow, Params.windowSeconds,
             LastGlobalWindow, Params.globalWindowSeconds)

C24_SweepAfterEveryDecision ==
    Verdict => \A key \in LastKeys : LastKeyIsOld(key) => key \notin DOMAIN storage

(***************************************************************************)
(* C24, amended.  The clean-up runs after an Allowed decision only, after  *)
(* the two increments: an Allowed check deletes the keys that pass the     *)
(* test of its clean-up loop and no other, and a Denied check returns      *)
(* before the clean-up and deletes nothing, whatever old entries of the    *)
(* client or of the global scope are stored.                               *)
(***************************************************************************)
C24_SweepAfterAllowedOnly ==
    /\ LastAllowed => \A key \in LastKeys : LastKeyIsOld(key) <=> key \notin DOMAIN storage
    /\ last.response.kind = "denied" => LastDeleted = {}

\* client 'a' is denied while an entry of its own, three windows old, is
\* stored, and the entry stays
C24_Witness ==
    /\ last.response.kind = "denied"
    /\ last.clientIP = IpA
    /\ \E key \in DOMAIN storage :
          /\ LastKeyIsOld(key)
          /\ key = WindowKey(IpA, LastClientWindow - 3 * ClientWindowMs)

(***************************************************************************)
(* C25.  A check never leaves a partial admission: whatever storage call   *)
(* of a check fails, the check has written the incremented count of the    *)
(* client and the incremented count of the global scope, or neither; the   *)
(* store never holds the one increment without the other.                  *)
(***************************************************************************)
\* what the last check added to the count stored for each of its two scopes
LastClientIncrement == StorageGet(storage, LastClientKey) - ClientCountBefore

LastGlobalIncrement == StorageGet(storage, LastGlobalKey) - GlobalCountBefore

C25_NoPartialAdmission ==
    last # NoCheck =>
        /\ Len(last.writes) \in {0, 2}
        /\ LastClientIncrement = 1 <=> LastGlobalIncrement = 1

(***************************************************************************)
(* C26.  A failure of the sweep (the list or a delete throws) leaves the   *)
(* request allowed and changes the count of no entry that is not expired:  *)
(* the two increments written for the current windows remain as written.   *)
(***************************************************************************)
\* the last check failed in its clean-up: the list or a delete threw
LastSweepFailed == last.response.kind = "exception" /\ last.calls >= 5

\* the store of the last check after its puts
LastWritten ==
    [key \in LastKeys |->
        IF \E i \in 1..Len(last.writes) : last.writes[i][1] = key
        THEN (CHOOSE w \in SeqRange(last.writes) :
                 /\ w[1] = key
                 /\ \A i \in 1..Len(last.writes) :
                       last.writes[i][1] = key => last.writes[i][2] <= w[2])[2]
        ELSE last.before[key]]

\* the entries of any client and of the global scope that are older than the
\* window before the current one at the time of the last check
LastExpiredOfAll ==
    { WindowKey(ip, w) :
          ip \in population,
          w \in {v \in WindowsUpTo(last.at) : v < LastClientWindow - ClientWindowMs} }
    \cup
    { GlobalWindowKey(g) :
          g \in {v \in GlobalWindowsUpTo(last.at) : v < LastGlobalWindow - GlobalWindowMs} }

C26_SweepFailureKeepsVerdictAndCounts ==
    LastSweepFailed =>
        /\ last.result = Proceed
        /\ Len(last.writes) = 2
        /\ \A key \in LastKeys \ LastExpiredOfAll :
              /\ key \in DOMAIN storage
              /\ storage[key] = LastWritten[key]

(***************************************************************************)
(* C27.  The sweep that follows an Allowed check never deletes an entry of *)
(* a current window: whatever the client identifier and the two positive   *)
(* window lengths, the client's current-window entry and the current       *)
(* global-window entry are stored with their post-increment counts when    *)
(* the check returns.                                                      *)
(***************************************************************************)
C27_SweepKeepsCurrentEntries ==
    LastAllowed =>
        /\ LastClientKey \in DOMAIN storage
        /\ LastGlobalKey \in DOMAIN storage
        /\ storage[LastClientKey] = last.response.count
        /\ storage[LastGlobalKey] = last.response.globalCount

(***************************************************************************)
(* C28.  A check by a client leaves every stored entry of every other      *)
(* client unchanged, neither incremented nor deleted, also when the        *)
(* identifier of the one is a prefix of the identifier of the other.       *)
(***************************************************************************)
\* the keys of the entries a client can have up to the last check
KeysOfClient(ip) == { WindowKey(ip, w) : w \in WindowsUpTo(last.at) }

C28_OtherClientsUntouched ==
    last # NoCheck =>
        \A ip \in population \ {last.clientIP} :
            \A key \in KeysOfClient(ip) \ KeysOfClient(last.clientIP) :
                StorageGet(storage, key) = StorageGet(last.before, key)
                    /\ (key \in DOMAIN storage <=> key \in DOMAIN last.before)

(***************************************************************************)
(* C29.  With limits of at least 1 and no storage failure, every stored    *)
(* entry has a count from 1 up to the limit of its scope, the client limit *)
(* for a client's entry and the global limit for a global entry; no entry  *)
(* with count 0 is ever stored.                                            *)
(***************************************************************************)
\* the keys of global entries and of clients' entries up to now
GlobalKeys == { GlobalWindowKey(g) : g \in GlobalWindowsUpTo(now) }

ClientKeys == { WindowKey(ip, w) : ip \in population, w \in WindowsUpTo(now) }

C29_CountsWithinLimits ==
    \A key \in DOMAIN storage :
        /\ storage[key] >= 1
        /\ key \in ClientKeys => storage[key] <= Params.rateLimit
        /\ key \in GlobalKeys => storage[key] <= Params.globalRateLimit
        /\ key \in ClientKeys \cup GlobalKeys

(***************************************************************************)
(* C30.  When the client window and the global window have the same length *)
(* and no storage call fails, the global count of the current window is    *)
(* the sum of the counts of all clients in the current window.             *)
(***************************************************************************)
RECURSIVE SumOfCounts(_, _)
\* the sum of the counts stored under the keys of a set
SumOfCounts(s, keys) ==
    IF keys = {} THEN 0
    ELSE LET key == CHOOSE k \in keys : TRUE
         IN  StorageGet(s, key) + SumOfCounts(s, keys \ {key})

C30_GlobalCountIsSumOfClients ==
    ClientWindowMs = GlobalWindowMs =>
        StorageGet(storage, GlobalWindowKey(WindowStart(now, Params.globalWindowSeconds)))
            = SumOfCounts(storage, { WindowKey(ip, WindowStart(now, Params.windowSeconds)) :
                                        ip \in population })

(***************************************************************************)
(* C31.  Denial is not permanent: with positive limits and window lengths, *)
(* the first check of a client at or after the reset time of its denial is *)
(* Allowed, provided the Allowed requests of the windows of that later     *)
(* time have used up neither the client's quota nor the global quota.      *)
(***************************************************************************)
\* the last check is the client's first at or after the reset time of its
\* denial
LastAfterReset == \E reset \in last.pending : JsGe(last.at, reset)

C31_DenialIsNotPermanent ==
    ( /\ Verdict
      /\ LastAfterReset
      /\ last.prior < Params.rateLimit
      /\ last.priorGlobal < Params.globalRateLimit )
    => LastAllowed

(***************************************************************************)
(* C32.  The client identity is the first non-empty value of the headers   *)
(* CF-Connecting-IP, X-Forwarded-For and X-Real-IP, in that order.  The    *)
(* requests that carry none of them are all counted under 'fallback-ip',   *)
(* one counter for all of them, and are subject to both quotas: they are   *)
(* Denied per-client once that counter is at the client limit and Denied   *)
(* global once the global count is at the global limit.                    *)
(***************************************************************************)
\* the identity the headers of the last request stand for
LastIdentity ==
    IF last.headers.cf # <<>> THEN last.headers.cf
    ELSE IF last.headers.xff # <<>> THEN last.headers.xff
    ELSE IF last.headers.xri # <<>> THEN last.headers.xri
    ELSE <<"f", "a", "l", "l", "b", "a", "c", "k", "-", "i", "p">>

\* the last request carried none of the three headers
LastWithoutHeaders == last.headers = [ cf |-> <<>>, xff |-> <<>>, xri |-> <<>> ]

C32_IdentityFromHeaders ==
    last # NoCheck =>
        /\ last.clientIP = LastIdentity
        /\ WindowKey(LastIdentity, LastClientWindow) \in last.reads
        /\ LastAllowed =>
              last.writes[1] = <<WindowKey(LastIdentity, LastClientWindow),
                                 StorageGet(last.before, WindowKey(LastIdentity, LastClientWindow)) + 1>>
        /\ LastWithoutHeaders =>
              /\ last.prior >= Params.rateLimit => LastDenied("per_ip_limit")
              /\ (last.prior < Params.rateLimit /\ last.priorGlobal >= Params.globalRateLimit)
                    => LastDenied("global_limit")
              /\ (last.prior < Params.rateLimit /\ last.priorGlobal < Params.globalRateLimit)
                    => LastAllowed

\* a request with X-Forwarded-For ab and X-Real-IP a is Allowed as ab, while
\* a request without headers has been counted under 'fallback-ip'
C32_Witness ==
    /\ last.headers = [ cf |-> <<>>, xff |-> IpAB, xri |-> IpA ]
    /\ LastAllowed
    /\ last.clientIP = IpAB
    /\ StorageGet(storage, WindowKey(FallbackIp, LastClientWindow)) = 1

\* a second request without headers is Denied per-client
C32_WitnessFallbackDenied ==
    /\ LastWithoutHeaders
    /\ LastDenied("per_ip_limit")
    /\ last.prior = 1

(***************************************************************************)
(* C33.  When the RATE_LIMITER binding is absent, checkRateLimit lets      *)
(* every request through and no counter is read or written: no call of    *)
(* the object is made, the store stays empty, and no request is answered   *)
(* with a rate-limit response, however many requests a client has sent.    *)
(***************************************************************************)
C33_NoBindingNoLimit ==
    ~cfg.RATE_LIMITER =>
        /\ storage = EmptyStorage
        /\ inflight = EmptyBag
        /\ last # NoCheck =>
              /\ ~last.result.rejected
              /\ last.http.stage # "rate_limit"
              /\ last.calls = 0
              /\ last.reads = {}
              /\ last.writes = <<>>

\* without the binding a client is let through more often in one window than
\* its limit allows, and the request reaches the dispatcher
C33_Witness ==
    /\ ~cfg.RATE_LIMITER
    /\ last.clientIP = IpA
    /\ last.prior >= Params.rateLimit
    /\ last.http.stage = "dispatch"
    /\ issued.global.n > Params.globalRateLimit

=============================================================================
